---- MODULE Spec2Model ----
(***************************************************************************)
(* Model of the containers the layout attribute macro of soaaos emits    *)
(* (src/src/lib.rs): the struct-of-arrays and the array-of-structs layout  *)
(* of one schema, the shared iterator and diff, and the macro's own        *)
(* validation of its inputs.                                               *)
(*                                                                         *)
(* Schema modelled: struct Node<R> { op: u8, arg: R } with R: PartialEq,   *)
(* the shape of the example in the macro's documentation (lib.rs 21-27).   *)
(***************************************************************************)
EXTENDS Integers, Sequences, FiniteSets, TLC

(***************************************************************************)
(* Machine integers.  A usize or u32 value n is held as two 16-bit limbs,  *)
(* n = hi * Limb + lo, because a length of 2^32 does not fit the integers  *)
(* of the model checker.  A u32 is a number whose hi limb is below Limb.   *)
(***************************************************************************)
Limb == 65536

Num(n) == [hi |-> n \div Limb, lo |-> n % Limb]

Zero == Num(0)

Plus(a, k) == [hi |-> a.hi + ((a.lo + k) \div Limb), lo |-> (a.lo + k) % Limb]

Lt(a, b) == a.hi < b.hi \/ (a.hi = b.hi /\ a.lo < b.lo)

Le(a, b) == a = b \/ Lt(a, b)

MinNum(a, b) == IF Lt(b, a) THEN b ELSE a

MaxNum(a, b) == IF Lt(a, b) THEN b ELSE a

\* a - b as a plain integer, for a >= b that are close to each other
Minus(a, b) == (a.hi - b.hi) * Limb + (a.lo - b.lo)

U32Max == [hi |-> Limb - 1, lo |-> Limb - 1]

IsU32(a) == a.hi < Limb

\* len as u32, index as u32: the cast keeps the low 32 bits
AsU32(a) == [hi |-> a.hi % Limb, lo |-> a.lo]

\* index.0 as usize: widening, the value is kept
AsUsize(a) == a

\* the size: usize argument of with_capacity, as four 16-bit limbs, most
\* significant first, so that sizes up to usize::MAX can be passed
Usize(n) == [w3 |-> 0, w2 |-> 0, hi |-> n \div Limb, lo |-> n % Limb]

UsizeMax == [w3 |-> Limb - 1, w2 |-> Limb - 1, hi |-> Limb - 1, lo |-> Limb - 1]

(***************************************************************************)
(* Bounds of the model.                                                    *)
(***************************************************************************)
MaxLen == 2       \* records added one by one to a container
MaxCap == 1       \* largest size passed to with_capacity
MaxOverrun == 2   \* next() calls followed past the container's length

(***************************************************************************)
(* The schema and its values.                                              *)
(***************************************************************************)
field_names == <<"op", "arg">>

Fields == {field_names[i] : i \in DOMAIN field_names}

\* field_names.get(0)
first_field == field_names[1]

\* a value of R that is not equal to itself under PartialEq (f32::NAN)
NaN == "NaN"

FieldValues(f) == IF f = "op" THEN {"a", "b"} ELSE {"c", NaN}

Records == {r \in [Fields -> {"a", "b", "c", NaN}] : \A f \in Fields : r[f] \in FieldValues(f)}

\* the record a bulk insertion repeats
FillRec == [f \in Fields |-> IF f = "op" THEN "a" ELSE "c"]

\* size_of of the field types, op: u8 and arg: R with the four-byte R whose
\* values FieldValues lists, and of the record
SizeOf(f) == IF f = "op" THEN 1 ELSE 4

SizeOfRecord == 2 * SizeOf("arg")

\* *o1 != *o2: PartialEq::ne of the field's type
NeInverted(a, b) == ~(a # b \/ a = NaN \/ b = NaN)
Ne(a, b) == a # b \/ a = NaN \/ b = NaN

(***************************************************************************)
(* Option and Result.                                                      *)
(***************************************************************************)
None == [some |-> FALSE]

Some(x) == [some |-> TRUE, val |-> x]

Ok(x) == [ok |-> TRUE, val |-> x]

Err(e) == [ok |-> FALSE, err |-> e]

\* Option::ok_or_else
OkOrElse(opt, e) == IF opt.some THEN Ok(opt.val) ELSE Err(e)

\* Option::map(|item| &item.f)
MapField(opt, f) == IF opt.some THEN Some(opt.val[f]) ELSE None

(***************************************************************************)
(* Vec<T>.  A vector is base copies of fill followed by the elements   *)
(* of rest; base is 0 unless the vector was filled in bulk.  cap is the  *)
(* capacity the vector is known to hold.                                   *)
(***************************************************************************)
VecNew(fill) == [base |-> Zero, fill |-> fill, rest |-> <<>>, cap |-> Zero]

\* what stands for a value whose constructor panicked
Panicked == [panicked |-> TRUE]

\* Vec::with_capacity panics with a capacity overflow when size elements of
\* esz bytes (a power of two) take more than isize::MAX = 2^63 - 1 bytes
CapacityOverflow(size, esz) == size.w3 >= (Limb \div 2) \div esz

VecWithCapacity(fill, esz, size) ==
    IF CapacityOverflow(size, esz) THEN Panicked
    ELSE [base |-> Zero, fill |-> fill, rest |-> <<>>,
          cap |-> [hi |-> (size.w3 * Limb + size.w2) * Limb + size.hi, lo |-> size.lo]]

VecLen(v) == Plus(v.base, Len(v.rest))

VecAt(v, p) == IF Lt(p, v.base) THEN v.fill ELSE v.rest[Minus(p, v.base) + 1]

\* slice::get / slice::get_mut
VecGet(v, i) == IF Lt(i, VecLen(v)) THEN Some(VecAt(v, i)) ELSE None

VecPushFront(v, x) == [v EXCEPT !.rest = <<x>> \o @, !.cap = MaxNum(@, Plus(VecLen(v), 1))]
VecPush(v, x) == [v EXCEPT !.rest = Append(@, x), !.cap = MaxNum(@, Plus(VecLen(v), 1))]

\* n pushes of the fill value onto an empty vector
VecPushFill(v, n) == [v EXCEPT !.base = n, !.cap = MaxNum(@, n)]

\* a write through the reference get_mut returned for position p
VecSet(v, p, x) == [v EXCEPT !.rest[Minus(p, v.base) + 1] = x]

(***************************************************************************)
(* Iterators over a vector, as the sequence they yield: base copies of     *)
(* fill, then rest.                                                        *)
(***************************************************************************)
VecIter(v) == [base |-> v.base, fill |-> v.fill, rest |-> v.rest]

IterLen(s) == Plus(s.base, Len(s.rest))

IterAt(s, p) == IF Lt(p, s.base) THEN s.fill ELSE s.rest[Minus(p, s.base) + 1]

\* Iterator::map(|item| &item.f)
IterMapField(s, f) == [base |-> s.base, fill |-> s.fill[f], rest |-> [k \in DOMAIN s.rest |-> s.rest[k][f]]]

\* the positions the properties look at: every position of a container that
\* was not filled in bulk, and the positions around 2^32 of one that was
ProbeNums == {Num(k) : k \in 0 .. (MaxLen + 1)}
             \cup {[hi |-> Limb - 1, lo |-> Limb - 1 - k] : k \in 0 .. 1}
             \cup {Plus(U32Max, k) : k \in 1 .. (MaxLen + 1)}

ProbeIds == {p \in ProbeNums : IsU32(p)}

Positions(n) == {p \in ProbeNums : Lt(p, n)}

(***************************************************************************)
(* Equality.  == of a field value is the negation of its !=; a Vec equals  *)
(* another when the lengths are equal and the elements are pairwise equal, *)
(* whatever the capacities; a record equals another when every field does  *)
(* (the PartialEq derived on the struct).                                  *)
(***************************************************************************)
ValueEq(a, b) == ~Ne(a, b)

RecordEq(a, b) == \A f \in Fields : ValueEq(a[f], b[f])

VecEqValues(v, w) ==
    /\ VecLen(v) = VecLen(w)
    /\ \A p \in Positions(VecLen(v)) : ValueEq(VecAt(v, p), VecAt(w, p))

VecEqRecords(v, w) ==
    /\ VecLen(v) = VecLen(w)
    /\ \A p \in Positions(VecLen(v)) : RecordEq(VecAt(v, p), VecAt(w, p))

(***************************************************************************)
(* Names the macro derives from the schema.                                *)
(***************************************************************************)
GetterName(f) == "get_" \o f

GetterEnumeratedName(f) == "get_" \o f \o "_enumerated"

GetterMutNameNoSuffix(f) == "get_" \o f
GetterMutName(f) == "get_" \o f \o "_mut"

ErrorName(f) == "NotFound_" \o f

\* XId::null()
IdNull == Zero

(***************************************************************************)
(* Struct-of-arrays layout: one Vec per field.                             *)
(***************************************************************************)
SoaNew == [f \in Fields |-> VecNew(FillRec[f])]

\* the struct expression evaluates every Vec::with_capacity(size); one that
\* panics ends the call
SoaWithCapacity(size) ==
    IF \E f \in Fields : VecWithCapacity(FillRec[f], SizeOf(f), size) = Panicked
    THEN Panicked
    ELSE [f \in Fields |-> VecWithCapacity(FillRec[f], SizeOf(f), size)]

SoaLen(c) == VecLen(c[first_field])

SoaIsEmpty(c) == SoaLen(c) = Zero

\* add: the layout after the pushes, and the id returned
SoaAddFirstOnly(c, item) ==
    [layout |-> [f \in Fields |-> IF f = first_field THEN VecPush(c[f], item[f]) ELSE c[f]],
     id |-> AsU32(VecLen(c[first_field]))]
SoaAdd(c, item) ==
    [layout |-> [f \in Fields |-> VecPush(c[f], item[f])],
     id |-> AsU32(VecLen(c[first_field]))]

\* the field accessor named after the field
SoaField(c, f) == VecIter(c[f])

SoaGetFirstError(c, f, index) == OkOrElse(VecGet(c[f], AsUsize(index)), ErrorName(first_field))
SoaGet(c, f, index) == OkOrElse(VecGet(c[f], AsUsize(index)), ErrorName(f))

\* get_<field>_enumerated: the items, and the pair yielded at position p
SoaGetEnumerated(c, f) == VecIter(c[f])

SoaGetMut(c, f, index) == OkOrElse(VecGet(c[f], AsUsize(index)), ErrorName(f))

\* the layout after *layout.get_f_mut(index)? = v
SoaWriteFirst(c, f, index, v) == [c EXCEPT ![first_field] = VecSet(@, AsUsize(index), v)]
SoaWrite(c, f, index, v) == [c EXCEPT ![f] = VecSet(@, AsUsize(index), v)]

\* derive(PartialEq) on the layout struct: every field vector equal
SoaEqFirstField(c, d) == VecEqValues(c[first_field], d[first_field])
SoaEq(c, d) == \A f \in Fields : VecEqValues(c[f], d[f])

(***************************************************************************)
(* Array-of-structs layout: one Vec of whole records.                      *)
(***************************************************************************)
AosNew == [data |-> VecNew(FillRec)]

AosWithCapacity(size) ==
    IF VecWithCapacity(FillRec, SizeOfRecord, size) = Panicked
    THEN Panicked
    ELSE [data |-> VecWithCapacity(FillRec, SizeOfRecord, size)]

AosLenCapacity(c) == c.data.cap
AosLen(c) == VecLen(c.data)

AosIsEmpty(c) == AosLen(c) = Zero

AosAdd(c, item) ==
    [layout |-> [data |-> VecPush(c.data, item)],
     id |-> AsU32(VecLen(c.data))]

AosFieldFirst(c, f) == IterMapField(VecIter(c.data), first_field)
AosField(c, f) == IterMapField(VecIter(c.data), f)

AosGet(c, f, index) ==
    OkOrElse(MapField(VecGet(c.data, AsUsize(index)), f), ErrorName(f))

AosGetEnumerated(c, f) == IterMapField(VecIter(c.data), f)

AosGetMut(c, f, index) ==
    OkOrElse(MapField(VecGet(c.data, AsUsize(index)), f), ErrorName(f))

AosWrite(c, f, index, v) ==
    [c EXCEPT !.data = VecSet(@, AsUsize(index), [VecAt(@, AsUsize(index)) EXCEPT ![f] = v])]

\* derive(PartialEq) on the layout struct: the data vectors equal
AosEq(c, d) == VecEqRecords(c.data, d.data)

(***************************************************************************)
(* .enumerate().map(|(index, item)| (XId(index as u32), item)): the pair *)
(* yielded at position p of the iterator s.                                *)
(***************************************************************************)
EnumeratedAt(s, p) == [id |-> AsU32(p), item |-> IterAt(s, p)]

(***************************************************************************)
(* Code shared by both layouts, written over the layout's own operations.  *)
(***************************************************************************)
Layouts == {"soa", "aos"}

LenOf(kind, c) == IF kind = "soa" THEN SoaLen(c) ELSE AosLen(c)

IsEmptyOf(kind, c) == IF kind = "soa" THEN SoaIsEmpty(c) ELSE AosIsEmpty(c)

FieldOf(kind, c, f) == IF kind = "soa" THEN SoaField(c, f) ELSE AosField(c, f)

GetOf(kind, c, f, index) == IF kind = "soa" THEN SoaGet(c, f, index) ELSE AosGet(c, f, index)

GetMutOf(kind, c, f, index) == IF kind = "soa" THEN SoaGetMut(c, f, index) ELSE AosGetMut(c, f, index)

GetEnumeratedOf(kind, c, f) == IF kind = "soa" THEN SoaGetEnumerated(c, f) ELSE AosGetEnumerated(c, f)

AddOf(kind, c, item) == IF kind = "soa" THEN SoaAdd(c, item) ELSE AosAdd(c, item)

NewOf(kind) == IF kind = "soa" THEN SoaNew ELSE AosNew

EqOf(kind, c, d) == IF kind = "soa" THEN SoaEq(c, d) ELSE AosEq(c, d)

(***************************************************************************)
(* diff: per field in schema order, zip the two field iterators, enumerate *)
(* and report the positions whose values are unequal.  A line of the       *)
(* report is held as [field, i, o1, o2].  Positions at which both          *)
(* iterators are still in their bulk-filled prefix carry the same pair of  *)
(* values, so they are compared once.                                      *)
(***************************************************************************)
DiffFieldLinesOneBased(a, b, f) ==
    LET hi == MinNum(IterLen(a), IterLen(b))
        lo == IF Ne(a.fill, b.fill) THEN Zero ELSE MinNum(MinNum(a.base, b.base), hi)
        cand == [k \in 1 .. Minus(hi, lo) |->
                    [field |-> f, i |-> Plus(lo, k),
                     o1 |-> IterAt(a, Plus(lo, k - 1)), o2 |-> IterAt(b, Plus(lo, k - 1))]]
    IN  SelectSeq(cand, LAMBDA l : Ne(l.o1, l.o2))
DiffFieldLinesLongest(a, b, f) ==
    LET hi == MaxNum(IterLen(a), IterLen(b))
        lo == IF Ne(a.fill, b.fill) THEN Zero ELSE MinNum(MinNum(a.base, b.base), hi)
        at(s, p) == IF Lt(p, IterLen(s)) THEN IterAt(s, p) ELSE "missing"
        cand == [k \in 1 .. Minus(hi, lo) |->
                    [field |-> f, i |-> Plus(lo, k - 1),
                     o1 |-> at(a, Plus(lo, k - 1)), o2 |-> at(b, Plus(lo, k - 1))]]
    IN  SelectSeq(cand, LAMBDA l : Ne(l.o1, l.o2))
DiffFieldLines(a, b, f) ==
    LET hi == MinNum(IterLen(a), IterLen(b))
        lo == IF Ne(a.fill, b.fill) THEN Zero ELSE MinNum(MinNum(a.base, b.base), hi)
        cand == [k \in 1 .. Minus(hi, lo) |->
                    [field |-> f, i |-> Plus(lo, k - 1),
                     o1 |-> IterAt(a, Plus(lo, k - 1)), o2 |-> IterAt(b, Plus(lo, k - 1))]]
    IN  SelectSeq(cand, LAMBDA l : Ne(l.o1, l.o2))

RECURSIVE DiffFrom(_, _, _, _)
DiffFrom(kind, x, y, k) ==
    IF k > Len(field_names) THEN <<>>
    ELSE DiffFieldLines(FieldOf(kind, x, field_names[k]), FieldOf(kind, y, field_names[k]), field_names[k])
         \o DiffFrom(kind, x, y, k + 1)

Diff(kind, x, y) ==
    LET out == DiffFrom(kind, x, y, 1)
    IN  IF out # <<>> THEN Some(out) ELSE None

(***************************************************************************)
(* <X>sIter: iter() and Iterator::next.  next() builds the record view     *)
(* from every getter at the cursor, gives up on the first getter that      *)
(* fails, and otherwise advances the cursor by index.0 + 1, a u32        *)
(* addition: at u32::MAX it panics in a build with overflow checks and     *)
(* wraps to 0 in a build without.                                          *)
(***************************************************************************)
IterInit == IdNull

NextItem(kind, c, index) ==
    IF \E f \in Fields : ~GetOf(kind, c, f, index).ok
    THEN None
    ELSE Some([f \in Fields |-> GetOf(kind, c, f, index).val])

NextIndexes(index) ==
    IF index = U32Max THEN {[panic |-> TRUE, index |-> index], [panic |-> FALSE, index |-> Zero]}
    ELSE {[panic |-> FALSE, index |-> Plus(index, 1)]}

(***************************************************************************)
(* State.                                                                  *)
(*   soa, aos  the two layouts of each container slot; the same calls are  *)
(*             made on both (tests/functionality.rs, test_soa)             *)
(*   expect    per slot, the records the caller stored, in order: appended *)
(*             by add, replaced by a write through get_<field>_mut         *)
(*   lastAdd   per slot, what the last add returned and where it put the   *)
(*             record                                                      *)
(*   iter      the iterator alive over one slot, with the counter of the   *)
(*             enumerate() adaptor of iter_enumerated                      *)
(*   gen       one call of the macro: its inputs and its result            *)
(***************************************************************************)
VARIABLES soa, aos, expect, lastAdd, iter, gen

vars == <<soa, aos, expect, lastAdd, iter, gen>>

Slots == {"x", "y"}

NoAdd == [valid |-> FALSE, pos |-> Zero, soaId |-> Zero, aosId |-> Zero]

NoIter == [live |-> FALSE, slot |-> "x", kind |-> "soa", index |-> Zero, count |-> Zero,
           returned |-> "nothing", last |-> None]

ExpectNew == [base |-> Zero, rest |-> <<>>]

ExpectLen(e) == Plus(e.base, Len(e.rest))

ExpectAt(e, p) == IF Lt(p, e.base) THEN FillRec ELSE e.rest[Minus(p, e.base) + 1]

Container(kind, s) == IF kind = "soa" THEN soa[s] ELSE aos[s]

Borrowed(s) == iter.live /\ iter.slot = s

(***************************************************************************)
(* The macro layout(attr, item): what one call returns.                  *)
(*   attr  [lit, val]: whether the attribute argument is a string literal, *)
(*         and its value                                                   *)
(*   item  [data, fields, names]: the kind of item, the kind of its field  *)
(*         list, and the names of its named fields in order                *)
(* The result says how the call ended (tokens, compile_error, panic), the  *)
(* layout chosen and the types the returned tokens define.                 *)
(***************************************************************************)
MaxFields == 2

StructIdent == "Node"

Tokens == {"soa", "struct-of-arrays", "aos", "array-of-structs", "SoA", "columnar", ""}

Attrs == {[lit |-> TRUE, val |-> t] : t \in Tokens} \cup {[lit |-> FALSE, val |-> "soa"]}

\* the identifiers the fields of an item are named with
Idents == Fields \cup {"op_mut", "op_enumerated", "get_op", "len", "InvalidDiff"}

NameLists == UNION {[1 .. n -> Idents] : n \in 0 .. MaxFields}

Items == {[data |-> "struct", fields |-> "named", names |-> ns] : ns \in NameLists}
         \cup {[data |-> "struct", fields |-> k, names |-> <<>>] : k \in {"unnamed", "unit"}}
         \cup {[data |-> d, fields |-> "named", names |-> <<>>] : d \in {"enum", "union", "fn"}}

NotRun == [result |-> "none", layout |-> "none", emitted |-> {}, methods |-> <<>>,
           variants |-> <<>>, message |-> ""]

CompileError(msg) == [result |-> "compile_error", layout |-> "none", emitted |-> {},
                      methods |-> <<>>, variants |-> <<>>, message |-> msg]

Panic(msg) == [result |-> "panic", layout |-> "none", emitted |-> {}, methods |-> <<>>,
               variants |-> <<>>, message |-> msg]

\* the types of the both block: the struct itself, its id, ref, error and iterator
BothTypes == {StructIdent, StructIdent \o "Id", StructIdent \o "Ref",
              StructIdent \o "sError", StructIdent \o "sIter"}

\* the methods every container gets, in the order the macro writes them: those
\* of the both block, then those of the layout's own impl block
FixedMethods == <<"diff", "iter", "iter_enumerated",
                  "new", "with_capacity", "len", "is_empty", "add">>

\* the methods of the container of a schema: the fixed ones, then per field
\* the accessor named after the field, the getter, the enumerated getter and
\* the mutable getter
MethodNames(names) ==
    FixedMethods
    \o names
    \o [k \in DOMAIN names |-> GetterName(names[k])]
    \o [k \in DOMAIN names |-> GetterEnumeratedName(names[k])]
    \o [k \in DOMAIN names |-> GetterMutName(names[k])]

\* the variants of the error enum: one per field, then InvalidDiff
ErrorVariants(names) == [k \in DOMAIN names |-> ErrorName(names[k])] \o <<"InvalidDiff">>

Emit(layout, names) ==
    [result |-> "tokens", layout |-> layout,
     emitted |-> BothTypes \cup {StructIdent \o "sLayout"},
     methods |-> MethodNames(names), variants |-> ErrorVariants(names), message |-> ""]

ParseLayoutDefault(val) ==
    IF val \in {"aos", "array-of-structs"} THEN "ArrayOfStructs" ELSE "StructOfArrays"
ParseLayout(val) ==
    IF val \in {"soa", "struct-of-arrays"} THEN "StructOfArrays"
    ELSE IF val \in {"aos", "array-of-structs"} THEN "ArrayOfStructs"
    ELSE "unknown"

LayoutMacro(attr, item) ==
    IF item.data \notin {"struct", "enum", "union"}
    THEN CompileError("expected one of: struct, enum, union")
    ELSE IF ~attr.lit
    THEN CompileError("expected string literal")
    ELSE IF ParseLayout(attr.val) = "unknown"
    THEN Panic("Unknown memory layout (expected struct-of-arrays or array-of-structs)")
    ELSE IF item.data # "struct"
    THEN CompileError("#[layout] can only be applied to structs")
    ELSE IF item.fields # "named"
    THEN CompileError("Only structs with named fields are supported for #[layout]")
    ELSE IF item.names = <<>>
    THEN Panic("No fields found for this memory layout")
    ELSE IF ParseLayout(attr.val) = "StructOfArrays"
    THEN Emit("StructOfArrays", item.names)
    ELSE IF ParseLayout(attr.val) = "ArrayOfStructs"
    THEN Emit("ArrayOfStructs", item.names)
    ELSE CompileError("Invalid layout specified. Expected \"soa\" or \"aos\".")

GenIdle == [attr |-> [lit |-> TRUE, val |-> "soa"],
            item |-> [data |-> "struct", fields |-> "named", names |-> field_names],
            out |-> NotRun]

(***************************************************************************)
(* Initial state: every slot holds the container new() returns, no         *)
(* iterator is alive.                                                      *)
(***************************************************************************)
Init ==
    /\ soa = [s \in Slots |-> SoaNew]
    /\ aos = [s \in Slots |-> AosNew]
    /\ expect = [s \in Slots |-> ExpectNew]
    /\ lastAdd = [s \in Slots |-> NoAdd]
    /\ iter = NoIter
    /\ gen = GenIdle

(***************************************************************************)
(* Container operations.  A call that takes &mut self needs the slot not   *)
(* to be borrowed by a live iterator.                                      *)
(***************************************************************************)
\* slot s := <X>sLayout::new()
New(s) ==
    /\ ~Borrowed(s)
    /\ soa' = [soa EXCEPT ![s] = SoaNew]
    /\ aos' = [aos EXCEPT ![s] = AosNew]
    /\ expect' = [expect EXCEPT ![s] = ExpectNew]
    /\ lastAdd' = [lastAdd EXCEPT ![s] = NoAdd]
    /\ UNCHANGED <<iter, gen>>

\* slot s := <X>sLayout::with_capacity(size)
WithCapacity(s, size) ==
    /\ ~Borrowed(s)
    /\ SoaWithCapacity(Usize(size)) # Panicked
    /\ AosWithCapacity(Usize(size)) # Panicked
    /\ soa' = [soa EXCEPT ![s] = SoaWithCapacity(Usize(size))]
    /\ aos' = [aos EXCEPT ![s] = AosWithCapacity(Usize(size))]
    /\ expect' = [expect EXCEPT ![s] = ExpectNew]
    /\ lastAdd' = [lastAdd EXCEPT ![s] = NoAdd]
    /\ UNCHANGED <<iter, gen>>

\* id = layout.add(item), on both layouts of slot s
Add(s, item) ==
    /\ ~Borrowed(s)
    /\ Len(expect[s].rest) < MaxLen
    /\ soa' = [soa EXCEPT ![s] = SoaAdd(@, item).layout]
    /\ aos' = [aos EXCEPT ![s] = AosAdd(@, item).layout]
    /\ expect' = [expect EXCEPT ![s].rest = Append(@, item)]
    /\ lastAdd' = [lastAdd EXCEPT ![s] = [valid |-> TRUE, pos |-> ExpectLen(expect[s]),
                                          soaId |-> SoaAdd(soa[s], item).id,
                                          aosId |-> AosAdd(aos[s], item).id]]
    /\ UNCHANGED <<iter, gen>>

\* the layouts after n calls add(FillRec) on an empty container, n >= 1;
\* every one of these calls finds a length below 2^32
SoaAddFill(c, n) == [f \in Fields |-> VecPushFill(c[f], n)]

AosAddFill(c, n) == [data |-> VecPushFill(c.data, n)]

\* u32::MAX calls of add(FillRec) in a row, on an empty slot
AddMany(s) ==
    /\ ~Borrowed(s)
    /\ ExpectLen(expect[s]) = Zero
    /\ soa' = [soa EXCEPT ![s] = SoaAddFill(@, U32Max)]
    /\ aos' = [aos EXCEPT ![s] = AosAddFill(@, U32Max)]
    /\ expect' = [expect EXCEPT ![s].base = U32Max]
    /\ lastAdd' = [lastAdd EXCEPT ![s] = [valid |-> TRUE, pos |-> Plus(U32Max, -1),
                                          soaId |-> AsU32(Plus(U32Max, -1)),
                                          aosId |-> AsU32(Plus(U32Max, -1))]]
    /\ UNCHANGED <<iter, gen>>

\* *layout.get_<f>_mut(index)? = v, on both layouts of slot s.  Only the
\* records added one by one are written to.
Write(s, f, index, v) ==
    /\ ~Borrowed(s)
    /\ Le(expect[s].base, index)
    /\ SoaGetMut(soa[s], f, index).ok
    /\ AosGetMut(aos[s], f, index).ok
    /\ ExpectAt(expect[s], index)[f] # v
    /\ soa' = [soa EXCEPT ![s] = SoaWrite(@, f, index, v)]
    /\ aos' = [aos EXCEPT ![s] = AosWrite(@, f, index, v)]
    /\ expect' = [expect EXCEPT ![s].rest[Minus(index, expect[s].base) + 1][f] = v]
    /\ UNCHANGED <<lastAdd, iter, gen>>

ContainerStep(s) ==
    \/ New(s)
    \/ \E size \in 1 .. MaxCap : WithCapacity(s, size)
    \/ \E item \in Records : Add(s, item)
    \/ \E f \in Fields, index \in ProbeIds : \E v \in FieldValues(f) : Write(s, f, index, v)

\* the bulk insertion is made on slot "x" only
Next ==
    \/ \E s \in Slots : ContainerStep(s)
    \/ AddMany("x")

Spec == Init /\ [][Next]_vars

(***************************************************************************)
(* Iteration over slot "x": iter() / iter_enumerated() and next().         *)
(***************************************************************************)
IterStart(s, kind) ==
    /\ ~iter.live
    /\ iter' = [live |-> TRUE, slot |-> s, kind |-> kind, index |-> IterInit, count |-> Zero,
                returned |-> "nothing", last |-> None]
    /\ UNCHANGED <<soa, aos, expect, lastAdd, gen>>

\* one call of next() through the enumerate().map(..) of iter_enumerated; over
\* a container filled in bulk the first calls are taken together, by IterSkip
IterNext ==
    /\ iter.live
    /\ iter.returned # "panic"
    /\ ~(iter.returned = "nothing" /\ expect[iter.slot].base = U32Max)
    /\ Lt(iter.count, Plus(ExpectLen(expect[iter.slot]), MaxOverrun))
    /\ LET item == NextItem(iter.kind, Container(iter.kind, iter.slot), iter.index)
       IN  IF ~item.some
           THEN iter' = [iter EXCEPT !.returned = "none", !.last = None]
           ELSE \E nx \in NextIndexes(iter.index) :
                  iter' = IF nx.panic
                          THEN [iter EXCEPT !.returned = "panic", !.last = None]
                          ELSE [iter EXCEPT !.index = nx.index,
                                            !.count = Plus(iter.count, 1),
                                            !.returned = "some",
                                            !.last = Some([id |-> AsU32(iter.count),
                                                           item |-> item.val])]
    /\ UNCHANGED <<soa, aos, expect, lastAdd, gen>>

\* the first u32::MAX calls of next() on a fresh iterator over a container
\* filled in bulk: each finds its record, the cursor ends at u32::MAX
IterSkip ==
    /\ iter.live
    /\ iter.returned = "nothing"
    /\ expect[iter.slot].base = U32Max
    /\ iter' = [iter EXCEPT !.index = U32Max, !.count = U32Max, !.returned = "some",
                            !.last = Some([id |-> AsU32(Plus(U32Max, -1)), item |-> FillRec])]
    /\ UNCHANGED <<soa, aos, expect, lastAdd, gen>>

IterDrop ==
    /\ iter.live
    /\ iter' = NoIter
    /\ UNCHANGED <<soa, aos, expect, lastAdd, gen>>

NextIter ==
    \/ ContainerStep("x")
    \/ AddMany("x")
    \/ \E kind \in Layouts : IterStart("x", kind)
    \/ IterNext
    \/ IterSkip
    \/ IterDrop

SpecIter == Init /\ [][NextIter]_vars

(***************************************************************************)
(* with_capacity against new: slot "x" starts as with_capacity(size), slot *)
(* "y" as new(), and every add call is made on both with the same record.  *)
(* The sizes go from below the number of records added to above it, and    *)
(* usize::MAX is one of them.  A with_capacity that panicked leaves no     *)
(* container to call add on.                                               *)
(***************************************************************************)
CapSizes == {Usize(n) : n \in 0 .. (2 * MaxLen + MaxCap)} \cup {UsizeMax}

Constructed(s) == soa[s] # Panicked /\ aos[s] # Panicked

InitCap ==
    /\ \E size \in CapSizes :
         /\ soa = [s \in Slots |-> IF s = "x" THEN SoaWithCapacity(size) ELSE SoaNew]
         /\ aos = [s \in Slots |-> IF s = "x" THEN AosWithCapacity(size) ELSE AosNew]
    /\ expect = [s \in Slots |-> ExpectNew]
    /\ lastAdd = [s \in Slots |-> NoAdd]
    /\ iter = NoIter
    /\ gen = GenIdle

\* id = layout.add(item) on every slot
AddBoth(item) ==
    /\ \A s \in Slots : Constructed(s)
    /\ \A s \in Slots : Len(expect[s].rest) < MaxLen
    /\ soa' = [s \in Slots |-> SoaAdd(soa[s], item).layout]
    /\ aos' = [s \in Slots |-> AosAdd(aos[s], item).layout]
    /\ expect' = [s \in Slots |-> [expect[s] EXCEPT !.rest = Append(@, item)]]
    /\ lastAdd' = [s \in Slots |-> [valid |-> TRUE, pos |-> ExpectLen(expect[s]),
                                     soaId |-> SoaAdd(soa[s], item).id,
                                     aosId |-> AosAdd(aos[s], item).id]]
    /\ UNCHANGED <<iter, gen>>

\* u32::MAX calls of add(FillRec) in a row on every slot, all empty
AddManyBoth ==
    /\ \A s \in Slots : Constructed(s)
    /\ \A s \in Slots : ExpectLen(expect[s]) = Zero
    /\ soa' = [s \in Slots |-> SoaAddFill(soa[s], U32Max)]
    /\ aos' = [s \in Slots |-> AosAddFill(aos[s], U32Max)]
    /\ expect' = [s \in Slots |-> [expect[s] EXCEPT !.base = U32Max]]
    /\ lastAdd' = [s \in Slots |-> [valid |-> TRUE, pos |-> Plus(U32Max, -1),
                                     soaId |-> AsU32(Plus(U32Max, -1)),
                                     aosId |-> AsU32(Plus(U32Max, -1))]]
    /\ UNCHANGED <<iter, gen>>

NextCap ==
    \/ \E item \in Records : AddBoth(item)
    \/ AddManyBoth

SpecCap == InitCap /\ [][NextCap]_vars

(***************************************************************************)
(* Writes against a copy: both slots are given the same records, and the   *)
(* writes through get_<field>_mut are made on slot "x" only, so that slot  *)
(* "y" keeps the records as they were added.                               *)
(***************************************************************************)
NextMut ==
    \/ \E item \in Records : AddBoth(item)
    \/ AddManyBoth
    \/ \E f \in Fields, index \in ProbeIds : \E v \in FieldValues(f) : Write("x", f, index, v)

SpecMut == Init /\ [][NextMut]_vars

(***************************************************************************)
(* One call of the macro on inputs drawn from Attrs and Items.             *)
(***************************************************************************)
InitGen ==
    /\ soa = [s \in Slots |-> SoaNew]
    /\ aos = [s \in Slots |-> AosNew]
    /\ expect = [s \in Slots |-> ExpectNew]
    /\ lastAdd = [s \in Slots |-> NoAdd]
    /\ iter = NoIter
    /\ gen \in {[attr |-> a, item |-> i, out |-> NotRun] : a \in Attrs, i \in Items}

Generate ==
    /\ gen.out = NotRun
    /\ gen' = [gen EXCEPT !.out = LayoutMacro(gen.attr, gen.item)]
    /\ UNCHANGED <<soa, aos, expect, lastAdd, iter>>

NextGen == Generate

SpecGen == InitGen /\ [][NextGen]_vars

(***************************************************************************)
(* Properties.                                                             *)
(***************************************************************************)
Kinds == Layouts

\* the number of records slot s holds: one per add call made on it
Count(s) == ExpectLen(expect[s])

\* C1: insertion identity, both layouts: get_f(Id(i)) is Ok(r_i.f) for every
\* id i below the number n of records added, and Err(NotFound_f), the variant
\* of the same field f, for every id i >= n.
C1_InsertionIdentity ==
    \A s \in Slots, kind \in Kinds, f \in Fields, i \in ProbeIds :
        GetOf(kind, Container(kind, s), f, i) =
            IF Lt(i, Count(s)) THEN Ok(ExpectAt(expect[s], i)[f]) ELSE Err(ErrorName(f))

C1_Witness ==
    \E s \in Slots :
        /\ Count(s) = Num(2)
        /\ SoaGet(soa[s], "arg", Num(1)) = Ok(ExpectAt(expect[s], Num(1))["arg"])
        /\ AosGet(aos[s], "arg", Num(2)) = Err("NotFound_arg")
        /\ ExpectAt(expect[s], Num(0)) # ExpectAt(expect[s], Num(1))

\* C2: length consistency, both layouts: after n add calls len() is n, and
\* is_empty() is true exactly when n = 0.
C2_LengthConsistency ==
    \A s \in Slots, kind \in Kinds :
        /\ LenOf(kind, Container(kind, s)) = Count(s)
        /\ IsEmptyOf(kind, Container(kind, s)) <=> (Count(s) = Zero)

C2_Witness ==
    \E s, t \in Slots :
        /\ Count(s) = Num(2) /\ SoaLen(soa[s]) = Num(2) /\ ~AosIsEmpty(aos[s])
        /\ Count(t) = Zero /\ SoaIsEmpty(soa[t]) /\ soa[t][first_field].cap # Zero

\* C3: columnar length invariant: in every reachable state of a
\* struct-of-arrays container all per-field vectors have the same length, the
\* one len() returns.
C3_ColumnarLengths ==
    \A s \in Slots, f \in Fields : VecLen(soa[s][f]) = SoaLen(soa[s])

C3_Witness ==
    \E s \in Slots :
        /\ SoaLen(soa[s]) = Num(2)
        /\ \A f \in Fields : VecLen(soa[s][f]) = Num(2)
        /\ soa[s]["arg"].rest = <<NaN, "c">>

\* C4: cross-strategy equivalence: with the same records added to both
\* layouts, after every add the two agree on len(), on the id the add
\* returned, on field_f() for every field, on get_f(id) for every field and
\* id, and on what the whole-record iterator yields at every cursor.
C4_CrossStrategy ==
    \A s \in Slots :
        /\ SoaLen(soa[s]) = AosLen(aos[s])
        /\ lastAdd[s].soaId = lastAdd[s].aosId
        /\ \A f \in Fields :
             /\ SoaField(soa[s], f) = AosField(aos[s], f)
             /\ SoaGetEnumerated(soa[s], f) = AosGetEnumerated(aos[s], f)
             /\ \A i \in ProbeIds : SoaGet(soa[s], f, i) = AosGet(aos[s], f, i)
        /\ \A i \in ProbeIds : NextItem("soa", soa[s], i) = NextItem("aos", aos[s], i)

C4_Witness ==
    \E s \in Slots :
        /\ lastAdd[s].valid /\ lastAdd[s].pos = Num(1)
        /\ AosField(aos[s], "op").rest = <<"b", "a">>
        /\ SoaField(soa[s], "op").rest = <<"b", "a">>
        /\ NextItem("aos", aos[s], Num(1)).some

\* C5: dense, never-reused ids: the k-th add call (from 0) returns the id
\* whose value is k, for every number of insertions, on either layout.
C5_DenseIds ==
    \A s \in Slots :
        lastAdd[s].valid => lastAdd[s].soaId = lastAdd[s].pos /\ lastAdd[s].aosId = lastAdd[s].pos

\* the (field, position) pairs below the shorter length at which the records
\* stored in slots s and t hold unequal values
Unequal(s, t) ==
    {fp \in Fields \X Positions(MinNum(Count(s), Count(t))) :
        Ne(ExpectAt(expect[s], fp[2])[fp[1]], ExpectAt(expect[t], fp[2])[fp[1]])}

Report(kind, s, t) == Diff(kind, Container(kind, s), Container(kind, t))

Lines(r) == IF r.some THEN r.val ELSE <<>>

FieldIndex(f) == CHOOSE k \in DOMAIN field_names : field_names[k] = f

C7_DiffReflexive ==
    \A s \in Slots, kind \in Kinds : Report(kind, s, s) = None

\* a container none of whose stored values is unequal to itself
SelfEqual(kind, s) ==
    \A f \in Fields, p \in Positions(LenOf(kind, Container(kind, s))) :
        IterAt(FieldOf(kind, Container(kind, s), f), p) # NaN

\* C7 amended: x.diff(x) is None for every reachable container x all of whose
\* stored values are equal to themselves under the field type's equality.
C7_DiffReflexiveSelfEqual ==
    \A s \in Slots, kind \in Kinds : SelfEqual(kind, s) => Report(kind, s, s) = None

C7_Witness ==
    \E s \in Slots :
        /\ Count(s) = Num(2)
        /\ \A kind \in Kinds : SelfEqual(kind, s) /\ Report(kind, s, s) = None
        /\ ExpectAt(expect[s], Num(0)) # ExpectAt(expect[s], Num(1))

\* C8: enumerated iteration order: iter_enumerated() over n records yields
\* exactly n pairs, the pair at position p being (Id(p), the record view whose
\* fields get_f(Id(p)) returns), the ids going 0, 1, .., n-1 with no gap and
\* no repeat, and then None.
C8_EnumeratedOrder ==
    iter.live =>
        LET n == Count(iter.slot)
            c == Container(iter.kind, iter.slot)
            pos == Plus(iter.count, -1)
        IN  /\ iter.returned # "panic"
            /\ iter.returned = "none" => iter.count = n
            /\ iter.returned = "some" =>
                 /\ Lt(pos, n)
                 /\ iter.last.val.id = pos
                 /\ \A f \in Fields :
                      GetOf(iter.kind, c, f, iter.last.val.id) = Ok(iter.last.val.item[f])

\* what C8 says, for containers of fewer than 2^32 records
C8_Below2p32 == Lt(Count(iter.slot), Plus(U32Max, 1)) => C8_EnumeratedOrder

\* C9: per-field sequences, both layouts: field_f() yields n values, the one
\* at position i being what get_f(Id(i)) returns; get_f_enumerated() yields
\* the n pairs (Id(0), v0), .., (Id(n-1), v(n-1)) with the same values.
C9_FieldSequences ==
    \A s \in Slots, kind \in Kinds, f \in Fields :
        LET c == Container(kind, s)
            fs == FieldOf(kind, c, f)
            es == GetEnumeratedOf(kind, c, f)
        IN  /\ IterLen(fs) = Count(s)
            /\ IterLen(es) = Count(s)
            /\ \A p \in Positions(Count(s)) :
                 /\ IterAt(fs, p) = ExpectAt(expect[s], p)[f]
                 /\ IsU32(p) => GetOf(kind, c, f, p) = Ok(IterAt(fs, p))
                 /\ EnumeratedAt(es, p) = [id |-> p, item |-> IterAt(fs, p)]

\* what C9 says, for containers of at most 2^32 records
C9_UpTo2p32 == (\A s \in Slots : Le(Count(s), Plus(U32Max, 1))) => C9_FieldSequences

ValidToken(attr) == attr.lit /\ attr.val \in {"soa", "struct-of-arrays", "aos", "array-of-structs"}

ValidItem(item) == item.data = "struct" /\ item.fields = "named" /\ Len(item.names) >= 1

Distinct(seq) == \A i, j \in DOMAIN seq : i # j => seq[i] # seq[j]

\* a field name that ends in one of the fixed suffixes
HasFixedSuffix(n) == \E g \in Idents : n \in {g \o "_enumerated", g \o "_mut"}

\* the precondition the claim states: field names pairwise distinct, none
\* ending in _enumerated or _mut, none being InvalidDiff
StatedPrecondition(names) ==
    /\ Distinct(names)
    /\ \A k \in DOMAIN names : ~HasFixedSuffix(names[k]) /\ names[k] # "InvalidDiff"

\* no field is named as a fixed method or as a getter derived from a field
NoMethodNamed(names) ==
    \A k \in DOMAIN names :
        /\ \A m \in DOMAIN FixedMethods : names[k] # FixedMethods[m]
        /\ \A j \in DOMAIN names :
             names[k] \notin {"get_" \o names[j], "get_" \o names[j] \o "_enumerated",
                              "get_" \o names[j] \o "_mut"}

\* C11 as stated: for every schema meeting the stated precondition the methods
\* generated on the container have pairwise distinct names and the error
\* variants are pairwise distinct.
C11_CollisionFree ==
    (gen.out.result = "tokens" /\ StatedPrecondition(gen.item.names)) =>
        Distinct(gen.out.methods) /\ Distinct(gen.out.variants)

\* C11 amended: the same, for schemas in which moreover no field is named as
\* one of the fixed methods or as a getter derived from a field of the schema.
C11_CollisionFreeNoMethodNamed ==
    (gen.out.result = "tokens" /\ StatedPrecondition(gen.item.names)
                               /\ NoMethodNamed(gen.item.names)) =>
        Distinct(gen.out.methods) /\ Distinct(gen.out.variants)

C11_Witness ==
    /\ gen.out.result = "tokens"
    /\ gen.item.names = <<"op", "arg">>
    /\ StatedPrecondition(gen.item.names) /\ NoMethodNamed(gen.item.names)
    /\ Len(gen.out.methods) = 16 /\ Distinct(gen.out.methods)
    /\ gen.out.variants = <<"NotFound_op", "NotFound_arg", "InvalidDiff">>

\* the containers a container is compared with: itself aside, the empty one
\* and the ones holding a single record
Others(kind) == {NewOf(kind)} \cup {AddOf(kind, NewOf(kind), r).layout : r \in Records}

\* C12: with_capacity is a capacity hint with no behavioural effect: the
\* container made by with_capacity(n) and the one made by new() start with
\* len() = 0 and is_empty() = true and, after the same add calls, have
\* returned the same ids and agree on every get_f, field_f, get_f_enumerated,
\* on what iter and iter_enumerated yield at every cursor, on every diff
\* result and on structural equality.
C12_CapacityNoEffect ==
    \A kind \in Kinds :
        \A x \in {Container(kind, "x")}, y \in {Container(kind, "y")} :
            /\ x # Panicked
            /\ Count("x") = Zero =>
                 /\ LenOf(kind, x) = Zero /\ IsEmptyOf(kind, x)
                 /\ LenOf(kind, y) = Zero /\ IsEmptyOf(kind, y)
            /\ LenOf(kind, x) = LenOf(kind, y)
            /\ IsEmptyOf(kind, x) = IsEmptyOf(kind, y)
            /\ lastAdd["x"] = lastAdd["y"]
            /\ \A f \in Fields :
                 /\ FieldOf(kind, x, f) = FieldOf(kind, y, f)
                 /\ GetEnumeratedOf(kind, x, f) = GetEnumeratedOf(kind, y, f)
                 /\ \A i \in ProbeIds : GetOf(kind, x, f, i) = GetOf(kind, y, f, i)
            /\ \A i \in ProbeIds : NextItem(kind, x, i) = NextItem(kind, y, i)
            /\ Diff(kind, x, y) = Diff(kind, y, x)
            /\ Diff(kind, x, x) = Diff(kind, y, y)
            /\ EqOf(kind, x, y) = EqOf(kind, x, x)
            /\ EqOf(kind, y, x) = EqOf(kind, y, y)
            /\ \A z \in Others(kind) :
                 /\ Diff(kind, x, z) = Diff(kind, y, z)
                 /\ Diff(kind, z, x) = Diff(kind, z, y)
                 /\ EqOf(kind, x, z) = EqOf(kind, y, z)
                 /\ EqOf(kind, z, x) = EqOf(kind, z, y)

\* what C12 says, for the sizes with which with_capacity returns
C12_WhenConstructed == Constructed("x") => C12_CapacityNoEffect

\* the container of slot s after the step
ContainerAfter(kind, s) == IF kind = "soa" THEN soa'[s] ELSE aos'[s]

\* a step in which one add call was made on slot s
AddCalled(s) == ExpectLen(expect'[s]) = Plus(ExpectLen(expect[s]), 1)

\* C13: ids stay valid across later insertions: an add call leaves get_f(id)
\* unchanged for every id an earlier add returned and every field f, and
\* changes nothing about the container except appending one record at
\* position len(): the length grows by exactly 1 and every value stored
\* before keeps its position and value.
C13_AddFrame ==
    [][\A s \in Slots, kind \in Kinds :
          AddCalled(s) =>
            \A c \in {Container(kind, s)}, d \in {ContainerAfter(kind, s)} :
                /\ LenOf(kind, d) = Plus(LenOf(kind, c), 1)
                /\ \A f \in Fields :
                     /\ IterLen(FieldOf(kind, d, f)) = Plus(IterLen(FieldOf(kind, c, f)), 1)
                     /\ \A p \in Positions(LenOf(kind, c)) :
                          IterAt(FieldOf(kind, d, f), p) = IterAt(FieldOf(kind, c, f), p)
                     /\ \A i \in ProbeIds :
                          Lt(i, LenOf(kind, c)) =>
                            /\ GetOf(kind, c, f, i).ok
                            /\ GetOf(kind, d, f, i) = GetOf(kind, c, f, i)
                     /\ IterAt(FieldOf(kind, d, f), LenOf(kind, c))
                            = ExpectAt(expect'[s], LenOf(kind, c))[f]]_vars

C13_Witness ==
    \E s \in Slots :
        /\ lastAdd[s].valid /\ lastAdd[s].pos = Num(1) /\ Count(s) = Num(2)
        /\ ExpectAt(expect[s], Num(0))["op"] # ExpectAt(expect[s], Num(1))["op"]
        /\ \A kind \in Kinds :
             GetOf(kind, Container(kind, s), "op", Num(0)) = Ok(ExpectAt(expect[s], Num(0))["op"])

\* C14: whole-record iteration is finite and complete: an iterator over a
\* container of n records starts at id 0, yields exactly n record views, the
\* i-th built from get_f(Id(i)) of every field, then returns None at id = n,
\* and goes on returning None at every further call of next().
C14_IterComplete ==
    iter.live =>
        LET n == Count(iter.slot)
            c == Container(iter.kind, iter.slot)
            i == Plus(iter.count, -1)
        IN  /\ iter.returned # "panic"
            /\ iter.returned = "nothing" => iter.index = Zero /\ iter.count = Zero
            /\ iter.returned = "none" => iter.index = n /\ iter.count = n
            /\ iter.returned = "some" =>
                 /\ iter.index = iter.count
                 /\ Le(iter.count, n)
                 /\ IsU32(i)
                 /\ \A f \in Fields : GetOf(iter.kind, c, f, i) = Ok(iter.last.val.item[f])

\* what C14 says, for containers of fewer than 2^32 records
C14_Below2p32 == Lt(Count(iter.slot), Plus(U32Max, 1)) => C14_IterComplete

\* the bounds rule of get_f_mut: it succeeds exactly when get_f does, that is
\* for the ids below len(), and fails with the variant of its own field
MutBoundsRule ==
    \A s \in Slots, kind \in Kinds, f \in Fields, i \in ProbeIds :
        \A c \in {Container(kind, s)} :
            /\ GetMutOf(kind, c, f, i).ok <=> GetOf(kind, c, f, i).ok
            /\ GetMutOf(kind, c, f, i).ok <=> Lt(i, LenOf(kind, c))
            /\ ~GetMutOf(kind, c, f, i).ok => GetMutOf(kind, c, f, i) = Err(ErrorName(f))

\* a step in which the caller wrote through get_f_mut into slot s
WriteDone(s) ==
    /\ expect'[s] # expect[s]
    /\ ExpectLen(expect'[s]) = ExpectLen(expect[s])

\* the (field, position) pairs the caller wrote to in the step
Written(s) ==
    {fp \in Fields \X Positions(Count(s)) :
        ExpectAt(expect'[s], fp[2])[fp[1]] # ExpectAt(expect[s], fp[2])[fp[1]]}

\* a write through the reference changes field f of the record at that id
\* and nothing else
MutFrame ==
    \A s \in Slots, kind \in Kinds :
        WriteDone(s) =>
            \A c \in {Container(kind, s)}, d \in {ContainerAfter(kind, s)}, w \in {Written(s)} :
                /\ Cardinality(w) = 1
                /\ LenOf(kind, d) = LenOf(kind, c)
                /\ \A f \in Fields :
                     /\ IterLen(FieldOf(kind, d, f)) = IterLen(FieldOf(kind, c, f))
                     /\ \A p \in Positions(LenOf(kind, c)) :
                          IF <<f, p>> \in w
                          THEN /\ GetMutOf(kind, c, f, p).ok
                               /\ GetOf(kind, d, f, p) = Ok(ExpectAt(expect'[s], p)[f])
                               /\ GetOf(kind, d, f, p) # GetOf(kind, c, f, p)
                          ELSE /\ IterAt(FieldOf(kind, d, f), p) = IterAt(FieldOf(kind, c, f), p)
                               /\ IsU32(p) => GetOf(kind, d, f, p) = GetOf(kind, c, f, p)

\* C15: mutable getter bounds rule and frame, both layouts: get_f_mut(id)
\* succeeds exactly when get_f(id) does (id < len()) and otherwise returns
\* NotFound_f; a write through the returned reference changes only field f
\* of the record at that id: get_f(id) then returns the written value, every
\* other field of that record and every field of every other record is
\* unchanged, and len() is unchanged.
C15_MutBoundsAndFrame == []MutBoundsRule /\ [][MutFrame]_vars

\* slot "x" differs from the unwritten copy in slot "y" in exactly one field
\* of one record
C15_Witness ==
    /\ Count("x") = Num(2) /\ Count("y") = Num(2)
    /\ Unequal("x", "y") = {<<"op", Num(1)>>}
    /\ \A kind \in Kinds :
         /\ GetOf(kind, Container(kind, "x"), "op", Num(1)) = Ok("b")
         /\ GetOf(kind, Container(kind, "y"), "op", Num(1)) = Ok("a")
         /\ GetMutOf(kind, Container(kind, "x"), "op", Num(2)) = Err("NotFound_op")

\* the records stored in slot t are, one by one, the first records stored in
\* slot s, which holds more
ProperPrefix(t, s) ==
    /\ Lt(Count(t), Count(s))
    /\ \A p \in Positions(Count(t)) : ExpectAt(expect[t], p) = ExpectAt(expect[s], p)

\* diff of containers of different lengths looks at the positions below the
\* shorter length only, and diff returns None or a report, never an error
DiffBelowShorter(kind, s, t) ==
    \A r \in {Report(kind, s, t)} :
        \A ls \in {Lines(r)} :
            /\ r = None \/ (r = Some(ls) /\ ls # <<>>)
            /\ Count(s) # Count(t) =>
                 /\ \A k \in DOMAIN ls : Lt(ls[k].i, MinNum(Count(s), Count(t)))
                 /\ {<<ls[k].field, ls[k].i>> : k \in DOMAIN ls} = Unequal(s, t)

\* C16 as stated: diff truncates at the shorter container, never errors, and
\* returns None when the records of one container are a proper prefix of the
\* records of the other.
C16_DiffTruncates ==
    \A s, t \in Slots, kind \in Kinds :
        /\ DiffBelowShorter(kind, s, t)
        /\ ProperPrefix(t, s) =>
             Report(kind, s, t) = None /\ Report(kind, t, s) = None

\* C16 amended: the same, the prefix case for a prefix whose stored values are
\* all equal to themselves under the field type's equality.
C16_DiffTruncatesSelfEqual ==
    \A s, t \in Slots, kind \in Kinds :
        /\ DiffBelowShorter(kind, s, t)
        /\ (ProperPrefix(t, s) /\ SelfEqual(kind, t)) =>
             Report(kind, s, t) = None /\ Report(kind, t, s) = None

C16_Witness ==
    /\ Count("x") = Num(2) /\ Count("y") = Num(1)
    /\ ProperPrefix("y", "x")
    /\ ExpectAt(expect["x"], Num(1)) # ExpectAt(expect["x"], Num(0))
    /\ \A kind \in Kinds :
         /\ SelfEqual(kind, "y")
         /\ Report(kind, "x", "y") = None /\ Report(kind, "y", "x") = None
         /\ Report(kind, "x", "x") # None

\* the (field, position) pairs a report lists
Pairs(r) == {<<Lines(r)[k].field, Lines(r)[k].i>> : k \in DOMAIN Lines(r)}

\* C17: diff agrees with structural equality on containers of equal length,
\* diff(x, y) being None exactly when x == y under the derived equality, and
\* is symmetric in its verdict for containers of any lengths: diff(x, y) is
\* None exactly when diff(y, x) is, and the two reports list the same
\* (field, position) pairs.
C17_DiffEqualitySymmetry ==
    \A s, t \in Slots, kind \in Kinds :
        \A x \in {Container(kind, s)}, y \in {Container(kind, t)} :
            \A r \in {Diff(kind, x, y)}, q \in {Diff(kind, y, x)} :
                /\ LenOf(kind, x) = LenOf(kind, y) => ((r = None) <=> EqOf(kind, x, y))
                /\ (r = None) <=> (q = None)
                /\ Pairs(r) = Pairs(q)

C17_Witness ==
    /\ Count("x") = Num(2) /\ Count("y") = Num(2)
    /\ expect["x"].rest = <<[op |-> "b", arg |-> "c"], [op |-> "a", arg |-> "c"]>>
    /\ expect["y"].rest = <<[op |-> "b", arg |-> "c"], [op |-> "a", arg |-> NaN]>>
    /\ SoaEq(soa["x"], soa["x"]) /\ AosEq(aos["x"], aos["x"])
    /\ ~SoaEq(soa["x"], soa["y"]) /\ ~AosEq(aos["y"], aos["x"])
    /\ \A kind \in Kinds :
         /\ Report(kind, "x", "x") = None
         /\ Pairs(Report(kind, "x", "y")) = {<<"arg", Num(1)>>}
         /\ Pairs(Report(kind, "y", "x")) = {<<"arg", Num(1)>>}

====
